---------------------------- MODULE Spec2Model ----------------------------
(***************************************************************************)
(* Model of the boot logger (debug-tools/bootlogger): the stream tailers   *)
(* with their filter pipeline (Logger.cpp), the avc record parser, the     *)
(* merge sweep and the rule rendering (AuditToAllow.cpp).                  *)
(*                                                                         *)
(* Text.  A std::string is a sequence of atoms; an atom is a non-empty     *)
(* piece of text that the code never looks inside ("ioctl", "u", ":",      *)
(* "=", the double quote).  A token is a string without whitespace; a log  *)
(* line is the sequence of its whitespace-separated tokens plus a flag     *)
(* saying whether whitespace follows the last token.  The amount of        *)
(* whitespace between two tokens is one blank.                             *)
(***************************************************************************)
EXTENDS Naturals, Sequences, FiniteSets, TLC

VARIABLES
  \* ---- the record parser run on its own (AvcContext::AvcContext)
  pPc,        \* "ready" | "parsed"
  pValid,     \* TRUE iff pLine was formatted from pIntent
  pIntent,    \* the fields the line was written from (ghost)
  pLine,      \* the line handed to the constructor
  pOut,       \* what the constructor ended with
  \* ---- main(), after the tailers are joined (Logger.cpp:395-416)
  mainPc,     \* where main() is
  ctx,        \* *kAvcCtx, the shared collection of AvcContext
  ctx0,       \* the collection as the sweep found it (ghost)
  e1, e2,     \* the positions of the two loops of the sweep
  rules,      \* what operator<<(ostream, AvcContexts) wrote, line by line
  \* ---- main(), before the join
  gate,       \* how ReadKernelConfig and CONFIG_AUDIT came out (ghost)
  avcOn,      \* kAvcCtx and kAvcFilter are set (not reset at lines 354-355)
  logdKernel, \* GetBoolProperty("ro.logd.kernel")
  run,        \* the std::atomic_bool the tailers poll
  exitStatus, \* "none" until main returns
  faults,     \* what fails to open in this run
  \* ---- the tailer threads (LoggerContext::startLogger)
  tPc,        \* where each thread is; "none" if it was never started
  fp,         \* _fp != nullptr
  filters,    \* the filters registered on each tailer
  cur,        \* the line fgets gave, by its place in SourceLines
  matched,    \* the filters that returned true for cur so far
  nread,      \* lines read so far, by both tailers
  lock,       \* the std::mutex: "free" or the tailer holding it
  propsDenied,\* the static set of libcPropFilterContext::filter
  \* ---- sinks
  sinkState,  \* "absent" (not constructed), "open", "failed" (ofs is bad)
  sinkData,   \* the lines sent to each sink's stream, in order
  sinkLen,    \* OutputContext::len of each sink
  sinkDisk,   \* a flush or the closing has sent some byte of the sink to its file
  sinkFile,   \* the file of each sink: "none", "exists" or "removed"
  genSink,    \* the sink of sepolicy.gen: [state, data, disk, file]
  \* ---- history
  readLog,    \* per tailer: each line fgets gave and the filters installed then
  propLog,    \* each line given to the property filter and what it returned
  ctxLine     \* the line each element of ctx was constructed from

parserVars == <<pPc, pValid, pIntent, pLine, pOut>>
mergeVars == <<mainPc, ctx, ctx0, e1, e2, rules>>
envVars == <<gate, avcOn, logdKernel, run, exitStatus, faults>>
tailVars == <<tPc, fp, filters, cur, matched, nread, lock, propsDenied>>
sinkVars == <<sinkState, sinkData, sinkLen, sinkDisk, sinkFile, genSink>>
ghostVars == <<readLog, propLog, ctxLine>>
vars == <<parserVars, mergeVars, envVars, tailVars, sinkVars, ghostVars>>

-----------------------------------------------------------------------------
(* Bounds *)

\* longest token sequence (after the marker) of an arbitrary parser input
MaxTokens == 4
\* most operations between the braces of a well-shaped parser input
MaxOps == 2
\* most records of a collection handed to the merge sweep on its own
MaxRecords == 3
\* most lines the two tailers read in a run, together
MaxReads == 2

-----------------------------------------------------------------------------
(* Strings *)

DQ == "\""

Range(s) == {s[i] : i \in 1..Len(s)}

\* std::string::substr on positions m..n, empty when m > n
Sub(s, m, n) == IF m > n \/ m > Len(s) THEN <<>> ELSE [i \in 1..(n - m + 1) |-> s[m + i - 1]]

Min(a, b) == IF a < b THEN a ELSE b

\* std::string::find(atom): the first position of the atom, 0 for npos
RECURSIVE FindFrom(_, _, _)
FindFrom(s, a, i) ==
  IF i > Len(s) THEN 0
  ELSE IF s[i] = a THEN i
  ELSE FindFrom(s, a, i + 1)

Find(s, a) == FindFrom(s, a, 1)

\* Atoms that are not made of [A-Za-z0-9_] only: what \w+ refuses.
NonWordAtoms == {"avc:", "{", "}", "=", ":", DQ, ";", " ", "\n", "allow ", "ro.foo", "ctl.start"}

IsWordAtom(a) == a \notin NonWordAtoms

\* a token matching \w+
IsWordTok(tok) == Len(tok) >= 1 /\ \A i \in 1..Len(tok) : IsWordAtom(tok[i])

\* Byte order of the atoms that reach a rendered rule.  No atom of this list
\* is a prefix of another one, so comparing two strings atom by atom is
\* comparing them byte by byte.
AtomOrder ==
  <<"\n", " ", DQ, ":", ";", "=", "allow ", "chr_file", "dir", "init", "ioctl",
    "mydomain", "open", "read", "sdcard_type", "sys_admin", "untrusted_app",
    "vendor_device", "write", "{", "}">>

AtomRank(a) == Find(AtomOrder, a)

\* std::string operator< (lexicographic)
RECURSIVE StrLessFrom(_, _, _)
StrLessFrom(a, b, i) ==
  IF i > Len(b) THEN FALSE
  ELSE IF i > Len(a) THEN TRUE
  ELSE IF a[i] = b[i] THEN StrLessFrom(a, b, i + 1)
  ELSE AtomRank(a[i]) < AtomRank(b[i])

StrLess(a, b) == StrLessFrom(a, b, 1)

\* TrimDoubleQuote: AuditToAllow.cpp:10-17
TrimDoubleQuote(str) ==
  IF Len(str) > 2 /\ str[1] = DQ /\ str[Len(str)] = DQ
  THEN Sub(str, 2, Len(str) - 1)
  ELSE str

\* SEContext::SEContext: the name of a label u:(object_)?r:<name>:s0<rest>,
\* any other string verbatim.
SEContext(context) ==
  IF /\ Len(context) >= 7
     /\ context[1] = "u" /\ context[2] = ":"
     /\ context[3] \in {"r", "object_r"} /\ context[4] = ":"
     /\ IsWordAtom(context[5])
     /\ context[6] = ":" /\ context[7] = "s0"
  THEN <<context[5]>>
  ELSE context

\* std::stringstream(s) >> x for an int x: the leading integer of s.
\* [ok |-> FALSE] when s does not start with one.
IntAtoms == {"0", "1", "2"}

ParseInt(s) ==
  IF Len(s) >= 1 /\ s[1] \in IntAtoms
  THEN [ok |-> TRUE, x |-> CASE s[1] = "0" -> 0 [] s[1] = "1" -> 1 [] OTHER -> 2]
  ELSE [ok |-> FALSE, x |-> 0]

-----------------------------------------------------------------------------
(* AttributeMap: std::map<std::string, std::string> as a set of entries    *)
(* with pairwise different keys.                                            *)

MapHas(m, key) == \E e \in m : e.key = key

MapGet(m, key) == (CHOOSE e \in m : e.key = key).val

\* std::map::emplace keeps the entry that is already there
MapEmplace(m, key, val) ==
  IF MapHas(m, key) THEN m ELSE m \cup {[key |-> key, val |-> val]}

MapErase(m, key) == {e \in m : e.key # key}

-----------------------------------------------------------------------------
(* The record parser: AvcContext::AvcContext                               *)

\* The fields of a record the constructor has not assigned.  granted and
\* permissive are indeterminate there; no code reads them while stale holds.
BlankContext ==
  [granted |-> FALSE, operation |-> {}, scontext |-> <<>>, tcontext |-> <<>>,
   tclass |-> <<>>, misc_attributes |-> {}, permissive |-> FALSE, stale |-> TRUE]

\* index of the first token that holds the marker, 0 if none does
RECURSIVE MarkerTokFrom(_, _)
MarkerTokFrom(toks, i) ==
  IF i > Len(toks) THEN 0
  ELSE IF Find(toks[i], "avc:") # 0 THEN i
  ELSE MarkerTokFrom(toks, i + 1)

\* string.substr(string.find("avc:")) split on whitespace (lines 37-41)
MarkerTokens(line) ==
  LET i == MarkerTokFrom(line.toks, 1)
      j == Find(line.toks[i], "avc:")
  IN  <<Sub(line.toks[i], j, Len(line.toks[i]))>>
        \o Sub(line.toks, i + 1, Len(line.toks))

\* the position of the first "}" at or after position it, 0 if there is none
RECURSIVE ClosingFrom(_, _)
ClosingFrom(lines, it) ==
  IF it > Len(lines) THEN 0
  ELSE IF lines[it] = <<"}">> THEN it
  ELSE ClosingFrom(lines, it + 1)

\* the do-while over the key=value tokens (lines 63-71)
RECURSIVE ParseAttributes(_, _, _)
ParseAttributes(lines, it, m) ==
  IF it > Len(lines) THEN m
  ELSE LET idx == Find(lines[it], "=")
       IN  ParseAttributes(lines, it + 1,
             IF idx = 0 THEN m
             ELSE MapEmplace(m, Sub(lines[it], 1, idx - 1),
                    TrimDoubleQuote(Sub(lines[it], idx + 1, Len(lines[it])))))

\* AvcContext::findOrDie(std::string &, key): lines 102-113
findOrDie(m, dest, key) ==
  IF MapHas(m, key)
  THEN [ret |-> TRUE, dest |-> MapGet(m, key), m |-> MapErase(m, key)]
  ELSE [ret |-> FALSE, dest |-> dest, m |-> m]

\* AvcContext::findOrDie(SEContext &, key): lines 115-122
findOrDieContext(m, dest, key) ==
  LET r == findOrDie(m, <<>>, key)
  IN  IF r.ret THEN [ret |-> TRUE, dest |-> SEContext(r.dest), m |-> r.m]
      ELSE [ret |-> FALSE, dest |-> dest, m |-> m]

\* lines 73-99: the required keys, once the attributes are collected
ResolveRequired(c) ==
  LET hasPerm == MapHas(c.misc_attributes, <<"permissive">>)
      s  == findOrDieContext(c.misc_attributes, c.scontext, <<"scontext">>)
      t  == findOrDieContext(s.m, c.tcontext, <<"tcontext">>)
      k  == findOrDie(t.m, c.tclass, <<"tclass">>)
      c1 == [c EXCEPT !.scontext = s.dest, !.tcontext = t.dest,
                      !.tclass = k.dest, !.misc_attributes = k.m]
      ret == s.ret /\ t.ret /\ k.ret /\ hasPerm
      x  == IF hasPerm THEN ParseInt(MapGet(c.misc_attributes, <<"permissive">>))
            ELSE [ok |-> FALSE, x |-> 0]
      found == ret /\ x.ok /\ x.x \in {0, 1}
  IN  IF found
      THEN [c1 EXCEPT !.permissive = (x.x = 1),
                      !.misc_attributes = MapErase(k.m, <<"permissive">>),
                      !.stale = FALSE]
      ELSE c1

\* The constructor.  exit is
\*   "record"     returned with stale = false,
\*   "discarded"  returned with stale = true,
\*   "oob"        dereferenced or advanced an iterator past lines.end(),
\*   "throw"      substr(npos) threw std::out_of_range (no marker in the line).
AvcContext(string) ==
  IF MarkerTokFrom(string.toks, 1) = 0
  THEN [exit |-> "throw", rec |-> BlankContext]
  ELSE
  LET lines == MarkerTokens(string)
      n     == Len(lines)
  IN  IF n < 2                                  \* *it at line 44
      THEN [exit |-> "oob", rec |-> BlankContext]
      ELSE IF lines[2] \notin {<<"granted">>, <<"denied">>}
      THEN [exit |-> "discarded", rec |-> BlankContext]
      ELSE
      LET c0 == [BlankContext EXCEPT !.granted = (lines[2] = <<"granted">>)]
      IN  IF n < 5                              \* *it at line 55, *(++it) at 56
          THEN [exit |-> "oob",
                rec |-> IF n = 4 THEN [c0 EXCEPT !.operation = {lines[4]}] ELSE c0]
          ELSE
          LET p  == ClosingFrom(lines, 5)
              c1 == [c0 EXCEPT !.operation =
                       {lines[i] : i \in 4..((IF p = 0 THEN n + 1 ELSE p) - 1)}]
          IN  IF p = 0 \/ p = n                 \* no "}" at all, or ++it past end()
              THEN [exit |-> "oob", rec |-> c1]
              ELSE IF p + 2 = n + 1             \* it == lines.end() at line 59
              THEN [exit |-> "discarded", rec |-> c1]
              ELSE
              LET c2 == ResolveRequired(
                          [c1 EXCEPT !.misc_attributes =
                             ParseAttributes(lines, p + 2, {})])
              IN  [exit |-> IF c2.stale THEN "discarded" ELSE "record", rec |-> c2]

-----------------------------------------------------------------------------
(* Parser inputs *)

W(s) == <<s>>
KV(k, v) == <<k, "=">> \o v
Quoted(v) == <<DQ>> \o v \o <<DQ>>
Label(role, name, rest) == <<"u", ":", role, ":", name, ":", "s0">> \o rest

RECURSIVE SeqsUpTo(_, _)
SeqsUpTo(S, n) ==
  IF n = 0 THEN {<<>>}
  ELSE LET shorter == SeqsUpTo(S, n - 1)
       IN  shorter \cup {Append(s, x) : s \in {t \in shorter : Len(t) = n - 1}, x \in S}

\* What a well-shaped line is written from.  extra: the other key=value
\* pairs, each [key, val, quoted]; the required pairs come in the order
\* scontext, tcontext, tclass, permissive after the first extra pair.
OpNames == {"ioctl", "open"}
Intents ==
  [granted : BOOLEAN,
   ops     : SeqsUpTo(OpNames, MaxOps),
   srole   : {"r"},
   sname   : {"mydomain", "init"},
   srest   : {<<>>, <<":", "c512">>},
   trole   : {"object_r"},
   tname   : {"vendor_device"},
   tclass  : {"chr_file", "dir"},
   permissive : {0, 1},
   extra   : {<<>>,
              <<[key |-> "comm", val |-> <<"bar">>, quoted |-> TRUE]>>,
              <<[key |-> "comm", val |-> <<>>, quoted |-> TRUE],
                [key |-> "ino", val |-> <<"1">>, quoted |-> FALSE]>>}]

FormatExtra(e) == KV(e.key, IF e.quoted THEN Quoted(e.val) ELSE e.val)

\* the line `avc: <status> { <ops> } for <pairs>`
FormatLine(in) ==
  LET head == <<W("avc:"), W(IF in.granted THEN "granted" ELSE "denied"), W("{")>>
      ops  == [i \in 1..Len(in.ops) |-> W(in.ops[i])]
      req  == <<KV("scontext", Label(in.srole, in.sname, in.srest)),
                KV("tcontext", Label(in.trole, in.tname, <<>>)),
                KV("tclass", W(in.tclass)),
                KV("permissive", W(IF in.permissive = 1 THEN "1" ELSE "0"))>>
      ex   == [i \in 1..Len(in.extra) |-> FormatExtra(in.extra[i])]
  IN  [toks  |-> head \o ops \o <<W("}"), W("for")>>
                   \o Sub(ex, 1, Min(1, Len(ex))) \o req \o Sub(ex, 2, Len(ex)),
       trail |-> FALSE]

NoIntent == CHOOSE in \in Intents : TRUE

\* Arbitrary token sequences after the marker
ArbitraryTokens ==
  {W("denied"), W("granted"), W("{"), W("}"), W("read"), W("for"),
   KV("tclass", W("dir"))}

ArbitraryLines ==
  {[toks |-> <<W("avc:")>> \o s, trail |-> FALSE] : s \in SeqsUpTo(ArbitraryTokens, MaxTokens)}


\* a denial line without tclass: its record stays stale
NoClassLine ==
  [toks |-> <<W("avc:"), W("denied"), W("{"), W("open"), W("}"), W("for"),
              KV("scontext", Label("r", "mydomain", <<>>)),
              KV("tcontext", Label("object_r", "vendor_device", <<>>)),
              KV("permissive", W("0"))>>,
   trail |-> FALSE]

-----------------------------------------------------------------------------
(* The merge engine: AvcContext::operator+= and the sweep of main()        *)

\* operator+= that marks the other record stale and forgets its operations
PlusEqualsNoUnion(self, other) ==
  IF ~self.stale /\ ~other.stale
       /\ self.granted = other.granted /\ self.scontext = other.scontext
       /\ self.tcontext = other.tcontext /\ self.tclass = other.tclass
  THEN <<self, [other EXCEPT !.stale = TRUE]>>
  ELSE <<self, other>>

\* operator+= that does not compare granted
PlusEqualsAnyStatus(self, other) ==
  IF ~self.stale /\ ~other.stale
       /\ self.scontext = other.scontext
       /\ self.tcontext = other.tcontext /\ self.tclass = other.tclass
  THEN <<[self EXCEPT !.operation = self.operation \cup other.operation],
         [other EXCEPT !.stale = TRUE]>>
  ELSE <<self, other>>

\* a merge that leaves a record holding sys_admin out
PlusEqualsSkipExcluded(self, other) ==
  IF /\ ~self.stale /\ ~other.stale
     /\ <<"sys_admin">> \notin (self.operation \cup other.operation)
  THEN LET mergable == /\ self.granted = other.granted
                       /\ self.scontext = other.scontext
                       /\ self.tcontext = other.tcontext
                       /\ self.tclass = other.tclass
       IN  IF mergable
           THEN <<[self EXCEPT !.operation = self.operation \cup other.operation],
                  [other EXCEPT !.stale = TRUE]>>
           ELSE <<self, other>>
  ELSE <<self, other>>

\* a merge that keeps the later record and retires the earlier one
PlusEqualsIntoOther(self, other) ==
  IF ~self.stale /\ ~other.stale
  THEN LET mergable == /\ self.granted = other.granted
                       /\ self.scontext = other.scontext
                       /\ self.tcontext = other.tcontext
                       /\ self.tclass = other.tclass
       IN  IF mergable
           THEN <<[self EXCEPT !.stale = TRUE],
                  [other EXCEPT !.operation = self.operation \cup other.operation]>>
           ELSE <<self, other>>
  ELSE <<self, other>>

\* AvcContext::operator+=(other): AuditToAllow.cpp:124-138.
\* The pair <<*this, other>> after the call.
PlusEquals(self, other) ==
  IF ~self.stale /\ ~other.stale
  THEN LET mergable == /\ self.granted = other.granted
                       /\ self.scontext = other.scontext
                       /\ self.tcontext = other.tcontext
                       /\ self.tclass = other.tclass
       IN  IF mergable
           THEN <<[self EXCEPT !.operation = self.operation \cup other.operation],
                  [other EXCEPT !.stale = TRUE]>>
           ELSE <<self, other>>
  ELSE <<self, other>>

\* the turn without `if (&e1 == &e2) continue;`: e1 += e1 works on one
\* object, which ends up marked stale
SweepPairNoSkip(c, i, j) ==
  LET r == PlusEquals(c[i], c[j])
  IN  IF i = j THEN [c EXCEPT ![i] = r[2]]
      ELSE [c EXCEPT ![i] = r[1], ![j] = r[2]]

\* One turn of the inner loop, Logger.cpp:405-410: `if (&e1 == &e2) continue;
\* e1 += e2;` on the elements at positions i and j.
SweepPair(c, i, j) ==
  IF i = j THEN c
  ELSE LET r == PlusEquals(c[i], c[j])
       IN  [c EXCEPT ![i] = r[1], ![j] = r[2]]

\* The two nested loops from position <<i, j>> on, Logger.cpp:404-411.
RECURSIVE SweepFrom(_, _, _)
SweepFrom(c, i, j) ==
  IF i > Len(c) THEN c
  ELSE IF j > Len(c) THEN SweepFrom(c, i + 1, 1)
  ELSE SweepFrom(SweepPair(c, i, j), i, j + 1)

Sweep(c) == SweepFrom(c, 1, 1)

-----------------------------------------------------------------------------
(* The rule synthesizer: the two operator<< of AuditToAllow.cpp            *)

\* the elements of a std::set<std::string> in iteration order
RECURSIVE SetInOrder(_)
SetInOrder(S) ==
  IF S = {} THEN <<>>
  ELSE LET least == CHOOSE x \in S : \A y \in S \ {x} : StrLess(x, y)
       IN  <<least>> \o SetInOrder(S \ {least})

RECURSIVE Concat(_)
Concat(ss) == IF ss = <<>> THEN <<>> ELSE Head(ss) \o Concat(Tail(ss))

\* the rendering with the braces around a single operation too
RenderContextBraces(context) ==
  IF context.stale \/ Cardinality(context.operation) = 0 THEN <<>>
  ELSE IF W("sys_admin") \in context.operation THEN <<>>
  ELSE LET ops == SetInOrder(context.operation)
       IN  <<"allow ">> \o context.scontext \o <<" ">> \o context.tcontext \o <<":">>
             \o context.tclass \o <<" ">> \o <<"{", " ">>
             \o Concat([i \in 1..Len(ops) |-> ops[i] \o <<" ">>]) \o <<"}">> \o <<";">>

\* the rendering without the hook on sys_admin
RenderContextNoHook(context) ==
  IF context.stale \/ Cardinality(context.operation) = 0 THEN <<>>
  ELSE <<"allow ">> \o context.scontext \o <<" ">> \o context.tcontext \o <<":">>
         \o context.tclass \o <<" ">>
         \o (IF Cardinality(context.operation) = 1
             THEN CHOOSE op \in context.operation : TRUE
             ELSE LET ops == SetInOrder(context.operation)
                  IN  <<"{", " ">>
                        \o Concat([i \in 1..Len(ops) |-> ops[i] \o <<" ">>])
                        \o <<"}">>)
         \o <<";">>

\* operator<<(std::ostream &, const AvcContext &): AuditToAllow.cpp:140-165.
\* The text written for one record.
RenderContext(context) ==
  IF context.stale \/ Cardinality(context.operation) = 0 THEN <<>>
  ELSE IF W("sys_admin") \in context.operation THEN <<>>
  ELSE <<"allow ">> \o context.scontext \o <<" ">> \o context.tcontext \o <<":">>
         \o context.tclass \o <<" ">>
         \o (IF Cardinality(context.operation) = 1
             THEN CHOOSE op \in context.operation : TRUE
             ELSE LET ops == SetInOrder(context.operation)
                  IN  <<"{", " ">>
                        \o Concat([i \in 1..Len(ops) |-> ops[i] \o <<" ">>])
                        \o <<"}">>)
         \o <<";">>

\* a std::vector<std::string>::push_back in the place of the set's insert
RulesPushBack(rs, line) == Append(rs, line)

\* std::set<std::string>::insert on the set kept in iteration order
RulesInsert(rs, line) ==
  IF line \in Range(rs) THEN rs
  ELSE LET k == Cardinality({i \in 1..Len(rs) : StrLess(rs[i], line)})
       IN  Sub(rs, 1, k) \o <<line>> \o Sub(rs, k + 1, Len(rs))

\* operator<<(std::ostream &, const AvcContexts &): AuditToAllow.cpp:167-180.
\* The lines written, in the order written.
RECURSIVE RenderFrom(_, _, _)
RenderFrom(context, i, rs) ==
  IF i > Len(context) THEN rs
  ELSE RenderFrom(context, i + 1,
         RulesInsert(rs, RenderContext(context[i]) \o <<"\n">>))

RenderContexts(context) == RenderFrom(context, 1, <<>>)

-----------------------------------------------------------------------------
(* The filters: Logger.cpp:208-260 *)

\* kAvcMessageRegEX, avc:\s+denied\s+\{(\s\w+)+\s\}\sfor\s, found in the line:
\* a token ending in the marker, `denied`, `{`, k >= 1 words, `}`, `for`, and
\* whitespace after `for`.
AvcRegexSearch(line) ==
  LET toks == line.toks
      n    == Len(toks)
  IN  \E i \in 1..n : \E k \in 1..n :
        /\ i + 4 + k <= n
        /\ toks[i][Len(toks[i])] = "avc:"
        /\ toks[i + 1] = W("denied")
        /\ toks[i + 2] = W("{")
        /\ \A w \in (i + 3)..(i + 2 + k) : IsWordTok(toks[w])
        /\ toks[i + 3 + k] = W("}")
        /\ toks[i + 4 + k] = W("for")
        /\ (i + 4 + k < n \/ line.trail)

\* line.find("untrusted_app") != npos
FindUntrusted(line) ==
  \E i \in 1..Len(line.toks) : Find(line.toks[i], "untrusted_app") # 0

\* the filter without line 215
AvcFilterMatchRegexOnly(line) == AvcRegexSearch(line)

\* the value AvcFilterContext::filter returns (lines 214-215, 220)
AvcFilterMatch(line) == AvcRegexSearch(line) /\ ~FindUntrusted(line)

\* kPropertyAccessRegEX found in the line: `libc`, `:`, four words, the quoted
\* property name and, optionally, ` to ` and a quoted destination.
\* [found, name, dest]: dest is <<>> when the optional group took no part.
PropNameAtoms == {"ro.foo", "ctl.start"}
DestAtoms == {"ro.foo", "ctl.start", "bar"}

IsQuotedAtom(tok, atoms) ==
  Len(tok) = 3 /\ tok[1] = DQ /\ tok[2] \in atoms /\ tok[3] = DQ

PropRegexAt(line, i) ==
  LET toks == line.toks
  IN  /\ i + 6 <= Len(toks)
      /\ toks[i][Len(toks[i])] = "libc"
      /\ toks[i + 1] = W(":")
      /\ \A w \in (i + 2)..(i + 5) : IsWordTok(toks[w])
      /\ IsQuotedAtom(toks[i + 6], PropNameAtoms)

PropRegexSearch(line) ==
  LET toks == line.toks
      hits == {i \in 1..Len(toks) : PropRegexAt(line, i)}
  IN  IF hits = {} THEN [found |-> FALSE, name |-> <<>>, dest |-> <<>>]
      ELSE LET i == CHOOSE h \in hits : \A g \in hits : h <= g
               withDest == /\ i + 8 <= Len(toks)
                           /\ toks[i + 7] = W("to")
                           /\ IsQuotedAtom(toks[i + 8], DestAtoms)
           IN  [found |-> TRUE, name |-> toks[i + 6],
                dest |-> IF withDest THEN W(toks[i + 8][2]) ELSE <<>>]

\* the marked subexpressions of kPropertyAccessRegEX (line 235)
MarkCount == 3

\* std::smatch::size() after a successful search: the marked subexpressions
\* and the whole match, whether or not an optional group took part
MatchSize(m) == MarkCount + 1

\* libcPropFilterContext::filter (lines 232-257) on the static set
\* propsDenied: [match, denied] is the value returned and the set after.
libcPropFilter(line, denied) ==
  LET kPropMatch == PropRegexSearch(line)
  IN  IF kPropMatch.found
      THEN IF MatchSize(kPropMatch) = 3
           THEN [match |-> TRUE, denied |-> denied]
           ELSE IF MatchSize(kPropMatch) = 1
           THEN IF kPropMatch.name \in denied
                THEN [match |-> FALSE, denied |-> denied]
                ELSE [match |-> TRUE, denied |-> denied \cup {kPropMatch.name}]
           ELSE [match |-> FALSE, denied |-> denied]
      ELSE [match |-> FALSE, denied |-> denied]

-----------------------------------------------------------------------------
(* The lines the two sources deliver.  A line is named by its place here.   *)

DenialLine(ops, sname, comm) ==
  [toks |-> <<W("avc:"), W("denied"), W("{")>> \o [i \in 1..Len(ops) |-> W(ops[i])]
              \o <<W("}"), W("for"), KV("comm", Quoted(W(comm))),
                   KV("scontext", Label("r", sname, <<>>)),
                   KV("tcontext", Label("object_r", "vendor_device", <<>>)),
                   KV("tclass", W("chr_file")), KV("permissive", W("0"))>>,
   trail |-> FALSE]

PropLine(name, dest) ==
  [toks |-> <<W("libc"), W(":"), W("Access"), W("denied"), W("finding"), W("property"),
              Quoted(W(name))>>
              \o (IF dest = "" THEN <<>> ELSE <<W("to"), Quoted(W(dest))>>),
   trail |-> FALSE]

SourceLines ==
  <<DenialLine(<<"ioctl">>, "mydomain", "bar"),
    DenialLine(<<"read", "write">>, "untrusted_app", "foo"),
    NoClassLine,
    PropLine("ro.foo", ""),
    PropLine("ctl.start", "bar")>>

LineIds == 1..Len(SourceLines)

\* /proc/kmsg gives the kernel's lines; logcat gives those too (logd may
\* log the kernel's messages) and the lines of the processes
LinesFrom(t) == IF t = "dmesg" THEN 1..3 ELSE LineIds

\* what the constructor makes of each line of SourceLines
Constructed == [l \in LineIds |-> AvcContext(SourceLines[l])]

\* what AvcFilterContext::filter returns for each line of SourceLines
AvcVerdict == [l \in LineIds |-> AvcFilterMatch(SourceLines[l])]

-----------------------------------------------------------------------------
(* Sinks: OutputContext, Logger.cpp:56-117 *)

Tailers == {"dmesg", "logcat"}
TailerSinks == {"dmesg", "logcat", "avc.dmesg", "avc.logcat", "libc_props.logcat"}

\* craftedFilename of OutputContext (lines 65-71), without ".txt"
FilterSink(t, f) ==
  CASE f = "avc" /\ t = "dmesg" -> "avc.dmesg"
    [] f = "avc" /\ t = "logcat" -> "avc.logcat"
    [] OTHER -> "libc_props.logcat"

\* OutputContext::operator<<(data) (lines 90-98): the lines sent to the
\* stream of sink id.  A stream that failed to open takes nothing.
SinkWrite(state, data, id, line) ==
  IF state[id] = "open" THEN [data EXCEPT ![id] = Append(@, line)] ELSE data

\* LoggerInternal.h:18
BUF_SIZE == 4096

\* std::string::size() of a string and of a line (tokens one blank apart)
RECURSIVE StrSize(_)
RECURSIVE ToksSize(_)

StrSize(str) == IF str = <<>> THEN 0 ELSE Len(Head(str)) + StrSize(Tail(str))

ToksSize(toks) == IF toks = <<>> THEN 0 ELSE StrSize(Head(toks)) + 1 + ToksSize(Tail(toks))

LineSize(line) ==
  IF line.toks = <<>> THEN 0
  ELSE ToksSize(line.toks) - 1 + (IF line.trail THEN 1 ELSE 0)

\* lines 91-95: len after a write of size bytes to sink id, for the sinks
\* in ids
SinkLenAfter(len, ids, size) ==
  [id \in DOMAIN len |->
     IF id \in ids
     THEN IF len[id] + size > BUF_SIZE THEN 0 ELSE len[id] + size
     ELSE len[id]]

\* lines 92-96: whether a flush has sent a byte of a sink in ids to its
\* file after the write: the flush at line 93 empties the stream's buffer of
\* what was sent before
SinkDiskAfter(state, data, len, disk, ids, size) ==
  [id \in DOMAIN disk |->
     IF id \in ids /\ state[id] = "open"
     THEN disk[id] \/ (len[id] + size > BUF_SIZE /\ data[id] # <<>>)
     ELSE disk[id]]

\* whether the file of each sink holds a byte while the stream is open: what
\* a flush sent there, and, in a build whose ofstream hands every write to
\* the file at once (unbuf), whatever was written
OnFile(data, disk, unbuf) ==
  [id \in DOMAIN disk |-> disk[id] \/ (unbuf /\ data[id] # <<>>)]

\* a destructor that removes no file
DestroyedKeep(file, disk, ids) == file

\* ~OutputContext (lines 105-112) of the sinks in ids: the file whose size
\* is 0 is removed; file_size fails on a file that was never created
Destroyed(file, disk, ids) ==
  [id \in DOMAIN file |->
     IF id \in ids /\ file[id] = "exists" /\ ~disk[id] THEN "removed" ELSE file[id]]

\* the ofstream members are destroyed after the destructor's body: what the
\* stream still holds goes to the file, if the file is still there
Closed(file, data, disk, ids) ==
  [id \in DOMAIN disk |->
     IF id \in ids /\ file[id] = "exists" THEN disk[id] \/ data[id] # <<>> ELSE disk[id]]

\* what may fail to open in a run: nothing, or one stream or sink
Openables == {"fp.dmesg", "fp.logcat", "sepolicy.gen"} \cup TailerSinks
FaultSets == {{}} \cup {{x} : x \in Openables}

-----------------------------------------------------------------------------
(* main(): Logger.cpp:310-417 *)

\* a gate that resets nothing
AvcKeptAlways(g) == TRUE

\* lines 347-356: kAvcFilter and kAvcCtx are reset only when rc = 0 and
\* CONFIG_AUDIT is not BUILT_IN
AvcKept(g) == g # "other"

\* lines 346-357.  The gate ends "builtin" (rc = 0, CONFIG_AUDIT=y), "other"
\* (rc = 0, any other value) or "failed" (rc # 0).
ConfigGate ==
  /\ mainPc = "gate"
  /\ \E g \in {"builtin", "other", "failed"} :
       /\ gate' = g
       /\ avcOn' = AvcKept(g)
  /\ mainPc' = "setup"
  /\ UNCHANGED <<ctx, ctx0, e1, e2, rules, logdKernel, run, exitStatus, faults>>
  /\ UNCHANGED <<parserVars, tailVars, sinkVars, ghostVars>>

\* lines 359-361: delAllAndRecreate
DirSetup ==
  /\ mainPc = "setup"
  /\ \E ok \in BOOLEAN :
       IF ok THEN mainPc' = "start" /\ exitStatus' = exitStatus
       ELSE mainPc' = "exit" /\ exitStatus' = "EXIT_FAILURE"
  /\ UNCHANGED <<ctx, ctx0, e1, e2, rules, gate, avcOn, logdKernel, run, faults>>
  /\ UNCHANGED <<parserVars, tailVars, sinkVars, ghostVars>>

\* lines 363-379: the two LoggerContext, their filters, their threads
StartLoggers ==
  /\ mainPc = "start"
  /\ run' = TRUE
  /\ \E k \in BOOLEAN, fs \in FaultSets :
       /\ logdKernel' = k
       /\ faults' = fs
       /\ fp' = [t \in Tailers |->
                  (t = "dmesg" /\ "fp.dmesg" \notin fs) \/ (t = "logcat" /\ "fp.logcat" \notin fs)]
       /\ filters' = [t \in Tailers |->
                       IF t = "dmesg"
                       THEN IF ~k /\ avcOn THEN {"avc"} ELSE {}
                       ELSE (IF avcOn THEN {"avc"} ELSE {}) \cup {"libc_props"}]
       /\ sinkState' = [id \in TailerSinks |->
                         IF \/ id \in {"dmesg", "logcat", "libc_props.logcat"}
                            \/ id = "avc.logcat" /\ avcOn
                            \/ id = "avc.dmesg" /\ avcOn /\ ~k
                         THEN IF id \in fs THEN "failed" ELSE "open"
                         ELSE "absent"]
       /\ tPc' = [t \in Tailers |-> IF t = "dmesg" /\ k THEN "none" ELSE "begin"]
  /\ sinkFile' = [id \in TailerSinks |-> IF sinkState'[id] = "open" THEN "exists" ELSE "none"]
  /\ mainPc' = "wait"
  /\ UNCHANGED <<ctx, ctx0, e1, e2, rules, gate, avcOn, exitStatus>>
  /\ UNCHANGED <<cur, matched, nread, lock, propsDenied>>
  /\ UNCHANGED <<sinkData, sinkLen, sinkDisk, genSink>>
  /\ UNCHANGED <<parserVars, ghostVars>>

\* lines 381-390: the wait is over, `run = false`
StopLoggers ==
  /\ mainPc = "wait"
  /\ run' = FALSE
  /\ mainPc' = "join"
  /\ UNCHANGED <<ctx, ctx0, e1, e2, rules, gate, avcOn, logdKernel, exitStatus, faults>>
  /\ UNCHANGED <<parserVars, tailVars, sinkVars, ghostVars>>

\* main going on without waiting for the threads
JoinedNoWait == TRUE

\* lines 391-393: i.join() returns for every thread that was started
Joined == \A t \in Tailers : tPc[t] \in {"none", "done"}

\* main returns after the loggers were constructed: kLogcatCtx and kDmesgCtx
\* are destroyed, and their filters' sinks with them
ReturnFromMain(unbuf) ==
  /\ sinkFile' = Destroyed(sinkFile, OnFile(sinkData, sinkDisk, unbuf), TailerSinks)
  /\ sinkDisk' = Closed(sinkFile', sinkData, sinkDisk, TailerSinks)

\* lines 391-402: the joins, then the sink of the rules if kAvcCtx is set
JoinLoggers ==
  /\ mainPc = "join"
  /\ Joined
  /\ IF avcOn
     THEN IF "sepolicy.gen" \in faults
          THEN /\ genSink' = [state |-> "failed", data |-> <<>>, disk |-> FALSE, file |-> "none"]
               /\ mainPc' = "exit"
               /\ exitStatus' = "EXIT_FAILURE"
               /\ \E u \in BOOLEAN : ReturnFromMain(u)
               /\ UNCHANGED <<ctx0, e1, e2>>
          ELSE /\ genSink' = [state |-> "open", data |-> <<>>, disk |-> FALSE, file |-> "exists"]
               /\ UNCHANGED <<sinkFile, sinkDisk>>
               /\ mainPc' = "merge"
               /\ ctx0' = ctx
               /\ e1' = 1
               /\ e2' = 1
               /\ exitStatus' = exitStatus
     ELSE /\ mainPc' = "exit"
          /\ exitStatus' = "EXIT_SUCCESS"
          /\ \E u \in BOOLEAN : ReturnFromMain(u)
          /\ UNCHANGED <<ctx0, e1, e2, genSink>>
  /\ UNCHANGED <<ctx, rules, gate, avcOn, logdKernel, run, faults>>
  /\ UNCHANGED <<sinkState, sinkData, sinkLen>>
  /\ UNCHANGED <<parserVars, tailVars, ghostVars>>

\* lines 404-411, one turn of the inner loop per step
MergeStep ==
  /\ mainPc = "merge"
  /\ e1 <= Len(ctx)
  /\ IF e2 > Len(ctx)
     THEN /\ e1' = e1 + 1
          /\ e2' = 1
          /\ ctx' = ctx
     ELSE /\ ctx' = SweepPair(ctx, e1, e2)
          /\ e2' = e2 + 1
          /\ e1' = e1
  /\ UNCHANGED <<mainPc, ctx0, rules>>
  /\ UNCHANGED <<parserVars, envVars, tailVars, sinkVars, ghostVars>>

\* lines 412-416, once the outer loop is over: the rules are rendered into
\* ss, ss.str() is sent to the sink (the flush of line 93 comes before the
\* write), seGenCtx is destroyed at the end of its block while its stream
\* still holds what it did not hand to the file, and main returns 0
Synthesize ==
  /\ mainPc = "merge"
  /\ e1 > Len(ctx)
  /\ rules' = RenderContexts(ctx)
  /\ \E u \in BOOLEAN :
       /\ genSink' = [state |-> genSink.state,
                       data |-> Append(genSink.data, Concat(RenderContexts(ctx))),
                       disk |-> u,
                       file |-> IF u THEN "exists" ELSE "removed"]
       /\ ReturnFromMain(u)
  /\ mainPc' = "done"
  /\ exitStatus' = "EXIT_SUCCESS"
  /\ UNCHANGED <<ctx, ctx0, e1, e2, gate, avcOn, logdKernel, run, faults>>
  /\ UNCHANGED <<sinkState, sinkData, sinkLen>>
  /\ UNCHANGED <<parserVars, tailVars, ghostVars>>

-----------------------------------------------------------------------------
(* A tailer thread: LoggerContext::startLogger, Logger.cpp:161-192 *)

\* lines 163-171 and 188-191: no stream, no loop; else the filters whose
\* sink did not open are erased
TailerBegin(t) ==
  /\ tPc[t] = "begin"
  /\ IF fp[t]
     THEN /\ filters' = [filters EXCEPT
                           ![t] = {f \in @ : sinkState[FilterSink(t, f)] = "open"}]
          /\ tPc' = [tPc EXCEPT ![t] = "check"]
     ELSE /\ filters' = filters
          /\ tPc' = [tPc EXCEPT ![t] = "done"]
  /\ UNCHANGED <<fp, cur, matched, nread, lock, propsDenied>>
  /\ UNCHANGED <<parserVars, mergeVars, envVars, sinkVars, ghostVars>>

\* a loop that does not look at the flag
TailerCheckNoPoll(t) ==
  /\ tPc[t] \in {"check", "eof"}
  /\ tPc' = [tPc EXCEPT ![t] = "read"]
  /\ UNCHANGED <<fp, filters, cur, matched, nread, lock, propsDenied>>
  /\ UNCHANGED <<parserVars, mergeVars, envVars, sinkVars, ghostVars>>

\* line 172: while (*run), at the top of the loop after a line was handled
\* ("check") or after fgets gave nullptr ("eof")
TailerCheck(t) ==
  /\ tPc[t] \in {"check", "eof"}
  /\ tPc' = [tPc EXCEPT ![t] = IF run THEN "read" ELSE "done"]
  /\ UNCHANGED <<fp, filters, cur, matched, nread, lock, propsDenied>>
  /\ UNCHANGED <<parserVars, mergeVars, envVars, sinkVars, ghostVars>>

\* lines 173-177 and 210-216: fgets gives a line, and the avc filter, if
\* installed, searches it
TailerRead(t) ==
  /\ tPc[t] = "read"
  /\ nread < MaxReads
  /\ \E l \in LinesFrom(t) :
       /\ cur' = [cur EXCEPT ![t] = l]
       /\ tPc' = [tPc EXCEPT ![t] =
                    IF "avc" \in filters[t] /\ AvcVerdict[l]
                    THEN "lock" ELSE "fanout"]
       /\ readLog' = [readLog EXCEPT ![t] = Append(@, [line |-> l, ran |-> filters[t]])]
  /\ matched' = [matched EXCEPT ![t] = {}]
  /\ nread' = nread + 1
  /\ UNCHANGED <<fp, filters, lock, propsDenied, propLog, ctxLine>>
  /\ UNCHANGED <<parserVars, mergeVars, envVars, sinkVars>>

\* lines 173-176 and 186: fgets gives nullptr (end of input, or an error);
\* the body is skipped and the loop goes back to its condition
TailerReadNull(t) ==
  /\ tPc[t] = "read"
  /\ tPc' = [tPc EXCEPT ![t] = "eof"]
  /\ UNCHANGED <<fp, filters, cur, matched, nread, lock, propsDenied>>
  /\ UNCHANGED <<parserVars, mergeVars, envVars, sinkVars, ghostVars>>

\* line 217: the lock_guard takes the mutex
\* a filter that goes on to the insertion without the mutex
TailerLockNoWait(t) ==
  /\ tPc[t] = "lock"
  /\ lock' = t
  /\ tPc' = [tPc EXCEPT ![t] = "insert"]
  /\ UNCHANGED <<fp, filters, cur, matched, nread, propsDenied>>
  /\ UNCHANGED <<parserVars, mergeVars, envVars, sinkVars, ghostVars>>

TailerLock(t) ==
  /\ tPc[t] = "lock"
  /\ lock = "free"
  /\ lock' = t
  /\ tPc' = [tPc EXCEPT ![t] = "insert"]
  /\ UNCHANGED <<fp, filters, cur, matched, nread, propsDenied>>
  /\ UNCHANGED <<parserVars, mergeVars, envVars, sinkVars, ghostVars>>

\* the element _ctx->emplace_back(line) constructs, line being the l-th
Emplaced(l) == Constructed[l].rec

\* lines 218-220: emplace_back(line) constructs the record in the collection,
\* the guard releases the mutex, the filter returns true.  A constructor that
\* went past the end of its tokens may do anything.
TailerInsert(t) ==
  /\ tPc[t] = "insert"
  /\ lock' = "free"
  /\ LET r == Constructed[cur[t]]
     IN  IF r.exit \in {"record", "discarded"}
         THEN /\ ctx' = Append(ctx, Emplaced(cur[t]))
              /\ tPc' = [tPc EXCEPT ![t] = "fanout"]
         ELSE \/ /\ ctx' = ctx
                 /\ tPc' = [tPc EXCEPT ![t] = "crashed"]
              \/ /\ \E s \in BOOLEAN : ctx' = Append(ctx, [r.rec EXCEPT !.stale = s])
                 /\ tPc' = [tPc EXCEPT ![t] = "fanout"]
  /\ ctxLine' = Append(ctxLine, cur[t])
  /\ matched' = [matched EXCEPT ![t] = {"avc"}]
  /\ UNCHANGED <<mainPc, ctx0, e1, e2, rules, readLog, propLog>>
  /\ UNCHANGED <<fp, filters, cur, nread, propsDenied>>
  /\ UNCHANGED <<parserVars, envVars, sinkVars>>

\* the sinks operator<< is called on for a line of tailer t that the filters
\* in m matched (lines 179-183)
WrittenTo(t, m) == {t} \cup {FilterSink(t, f) : f \in m}

\* the fan-out that leaves a matched line out of the raw sink
FanOutMatchedOnly(state, data, t, m, line) ==
  LET d1 == IF "avc" \in m
            THEN SinkWrite(state, data, FilterSink(t, "avc"), line) ELSE data
      d2 == IF "libc_props" \in m
            THEN SinkWrite(state, d1, FilterSink(t, "libc_props"), line) ELSE d1
  IN  IF m = {} THEN SinkWrite(state, d2, t, line) ELSE d2

\* What the loop over the filters and the raw write (lines 178-183) send to
\* the sinks of tailer t for the line, m being the filters that matched.
FanOut(state, data, t, m, line) ==
  LET d1 == IF "avc" \in m
            THEN SinkWrite(state, data, FilterSink(t, "avc"), line) ELSE data
      d2 == IF "libc_props" \in m
            THEN SinkWrite(state, d1, FilterSink(t, "libc_props"), line) ELSE d1
  IN  SinkWrite(state, d2, t, line)

\* lines 178-185: the writes to the sinks of the filters that matched, the
\* property filter on the way, and the write to the tailer's own sink
TailerFanOut(t) ==
  /\ tPc[t] = "fanout"
  /\ LET line == cur[t]
         p    == IF "libc_props" \in filters[t]
                 THEN libcPropFilter(SourceLines[line], propsDenied)
                 ELSE [match |-> FALSE, denied |-> propsDenied]
         m    == matched[t] \cup (IF p.match THEN {"libc_props"} ELSE {})
     IN  /\ propsDenied' = p.denied
         /\ sinkData' = FanOut(sinkState, sinkData, t, m, line)
         /\ sinkLen' = SinkLenAfter(sinkLen, WrittenTo(t, m), LineSize(SourceLines[line]))
         /\ sinkDisk' = SinkDiskAfter(sinkState, sinkData, sinkLen, sinkDisk, WrittenTo(t, m),
                                      LineSize(SourceLines[line]))
         /\ propLog' = IF "libc_props" \in filters[t]
                        THEN Append(propLog, [line |-> line, match |-> p.match])
                        ELSE propLog
  /\ tPc' = [tPc EXCEPT ![t] = "check"]
  /\ UNCHANGED <<fp, filters, cur, matched, nread, lock>>
  /\ UNCHANGED <<sinkState, sinkFile, genSink, readLog, ctxLine>>
  /\ UNCHANGED <<parserVars, mergeVars, envVars>>

-----------------------------------------------------------------------------
(* The program *)

ParserParked ==
  /\ pPc = "off"
  /\ pValid = FALSE
  /\ pIntent = NoIntent
  /\ pLine = [toks |-> <<>>, trail |-> FALSE]
  /\ pOut = [exit |-> "none", rec |-> BlankContext, oob |-> FALSE]

TailersParked ==
  /\ tPc = [t \in Tailers |-> "none"]
  /\ fp = [t \in Tailers |-> FALSE]
  /\ filters = [t \in Tailers |-> {}]
  /\ cur = [t \in Tailers |-> 1]
  /\ matched = [t \in Tailers |-> {}]
  /\ nread = 0
  /\ lock = "free"
  /\ propsDenied = {}
  /\ sinkState = [id \in TailerSinks |-> "absent"]
  /\ sinkData = [id \in TailerSinks |-> <<>>]
  /\ sinkLen = [id \in TailerSinks |-> 0]
  /\ sinkDisk = [id \in TailerSinks |-> FALSE]
  /\ sinkFile = [id \in TailerSinks |-> "none"]
  /\ readLog = [t \in Tailers |-> <<>>]
  /\ propLog = <<>>
  /\ ctxLine = <<>>

Init ==
  /\ ParserParked
  /\ TailersParked
  /\ mainPc = "gate"
  /\ ctx = <<>>
  /\ ctx0 = <<>>
  /\ e1 = 1
  /\ e2 = 1
  /\ rules = <<>>
  /\ gate = "none"
  /\ avcOn = TRUE
  /\ logdKernel = FALSE
  /\ run = FALSE
  /\ exitStatus = "none"
  /\ faults = {}
  /\ genSink = [state |-> "absent", data |-> <<>>, disk |-> FALSE, file |-> "none"]

Next ==
  \/ ConfigGate
  \/ DirSetup
  \/ StartLoggers
  \/ StopLoggers
  \/ JoinLoggers
  \/ MergeStep
  \/ Synthesize
  \/ \E t \in Tailers : TailerBegin(t)
  \/ \E t \in Tailers : TailerCheck(t)
  \/ \E t \in Tailers : TailerRead(t)
  \/ \E t \in Tailers : TailerReadNull(t)
  \/ \E t \in Tailers : TailerLock(t)
  \/ \E t \in Tailers : TailerInsert(t)
  \/ \E t \in Tailers : TailerFanOut(t)

Spec == Init /\ [][Next]_vars

-----------------------------------------------------------------------------
(* The merge engine and the synthesizer on a collection of their own *)

MergeIntent(granted, ops, sname, tname, tclass, perm, extra) ==
  [granted |-> granted, ops |-> ops, srole |-> "r", sname |-> sname, srest |-> <<>>,
   trole |-> "object_r", tname |-> tname, tclass |-> tclass, permissive |-> perm,
   extra |-> extra]

ExtraComm == <<[key |-> "comm", val |-> <<"bar">>, quoted |-> TRUE]>>

\* Lines whose records make up the collections: the records are those the
\* constructor builds from them.
MergeLines ==
  {FormatLine(MergeIntent(FALSE, <<"ioctl">>, "mydomain", "vendor_device", "chr_file", 0, <<>>)),
   FormatLine(MergeIntent(FALSE, <<"open">>, "mydomain", "vendor_device", "chr_file", 1, ExtraComm)),
   FormatLine(MergeIntent(TRUE, <<"ioctl">>, "mydomain", "vendor_device", "chr_file", 0, <<>>)),
   FormatLine(MergeIntent(FALSE, <<"sys_admin">>, "mydomain", "vendor_device", "chr_file", 0, <<>>)),
   FormatLine(MergeIntent(FALSE, <<"ioctl", "read">>, "init", "vendor_device", "chr_file", 0, <<>>)),
   FormatLine(MergeIntent(FALSE, <<"ioctl">>, "mydomain", "vendor_device", "dir", 0, <<>>)),
   FormatLine(MergeIntent(FALSE, <<"ioctl">>, "mydomain", "sdcard_type", "chr_file", 0, <<>>)),
   NoClassLine}

MergeRecords == {AvcContext(l).rec : l \in MergeLines}

\* main() at line 404 with a collection of MergeRecords
InitMerge ==
  /\ ParserParked
  /\ TailersParked
  /\ mainPc = "merge"
  /\ ctx \in SeqsUpTo(MergeRecords, MaxRecords)
  /\ ctx0 = ctx
  /\ e1 = 1
  /\ e2 = 1
  /\ rules = <<>>
  /\ gate = "builtin"
  /\ avcOn = TRUE
  /\ logdKernel = FALSE
  /\ run = FALSE
  /\ exitStatus = "none"
  /\ faults = {}
  /\ genSink = [state |-> "open", data |-> <<>>, disk |-> FALSE, file |-> "exists"]

NextMerge ==
  \/ MergeStep
  \/ Synthesize

SpecMerge == InitMerge /\ [][NextMerge]_vars

-----------------------------------------------------------------------------
(* The parser on its own *)

InitParser ==
  /\ pPc = "ready"
  /\ \/ /\ pValid = TRUE
        /\ pIntent \in Intents
        /\ pLine = FormatLine(pIntent)
     \/ /\ pValid = FALSE
        /\ pIntent = NoIntent
        /\ pLine \in ArbitraryLines
  /\ pOut = [exit |-> "none", rec |-> BlankContext, oob |-> FALSE]
  /\ TailersParked
  /\ mainPc = "off"
  /\ ctx = <<>>
  /\ ctx0 = <<>>
  /\ e1 = 1
  /\ e2 = 1
  /\ rules = <<>>
  /\ gate = "none"
  /\ avcOn = TRUE
  /\ logdKernel = FALSE
  /\ run = FALSE
  /\ exitStatus = "none"
  /\ faults = {}
  /\ genSink = [state |-> "absent", data |-> <<>>, disk |-> FALSE, file |-> "none"]

\* One construction.  Past lines.end() the behaviour is undefined: the
\* constructor may crash, or return either kind of record.
ParseLine ==
  /\ pPc = "ready"
  /\ pPc' = "parsed"
  /\ LET r == AvcContext(pLine)
     IN  IF r.exit = "oob"
         THEN \E e \in {"crash", "record", "discarded"} :
                pOut' = [exit |-> e, rec |-> [r.rec EXCEPT !.stale = (e # "record")],
                         oob |-> TRUE]
         ELSE pOut' = [exit |-> r.exit, rec |-> r.rec, oob |-> FALSE]
  /\ UNCHANGED <<pValid, pIntent, pLine>>
  /\ UNCHANGED <<mergeVars, envVars, tailVars, sinkVars, ghostVars>>

NextParser == ParseLine

SpecParser == InitParser /\ [][NextParser]_vars

-----------------------------------------------------------------------------
(* The program from its wait (Logger.cpp:381) on, in the runs where all    *)
(* streams and sinks opened, when every thread that can take a step takes   *)
(* one in the end: the threads are scheduled, a read that was started       *)
(* returns, and a mutex that is free is acquired.  (The wait of main may    *)
(* last for ever.)                                                           *)

\* the states StartLoggers leaves when nothing fails to open
InitLive ==
  /\ ParserParked
  /\ mainPc = "wait"
  /\ ctx = <<>>
  /\ ctx0 = <<>>
  /\ e1 = 1
  /\ e2 = 1
  /\ rules = <<>>
  /\ gate \in {"builtin", "other", "failed"}
  /\ avcOn = AvcKept(gate)
  /\ logdKernel \in BOOLEAN
  /\ run = TRUE
  /\ exitStatus = "none"
  /\ faults = {}
  /\ tPc = [t \in Tailers |-> IF t = "dmesg" /\ logdKernel THEN "none" ELSE "begin"]
  /\ fp = [t \in Tailers |-> TRUE]
  /\ filters = [t \in Tailers |->
                 IF t = "dmesg"
                 THEN IF ~logdKernel /\ avcOn THEN {"avc"} ELSE {}
                 ELSE (IF avcOn THEN {"avc"} ELSE {}) \cup {"libc_props"}]
  /\ cur = [t \in Tailers |-> 1]
  /\ matched = [t \in Tailers |-> {}]
  /\ nread = 0
  /\ lock = "free"
  /\ propsDenied = {}
  /\ sinkState = [id \in TailerSinks |->
                   IF \/ id \in {"dmesg", "logcat", "libc_props.logcat"}
                      \/ id = "avc.logcat" /\ avcOn
                      \/ id = "avc.dmesg" /\ avcOn /\ ~logdKernel
                   THEN "open" ELSE "absent"]
  /\ sinkData = [id \in TailerSinks |-> <<>>]
  /\ sinkLen = [id \in TailerSinks |-> 0]
  /\ sinkDisk = [id \in TailerSinks |-> FALSE]
  /\ sinkFile = [id \in TailerSinks |-> IF sinkState[id] = "open" THEN "exists" ELSE "none"]
  /\ genSink = [state |-> "absent", data |-> <<>>, disk |-> FALSE, file |-> "none"]
  /\ readLog = [t \in Tailers |-> <<>>]
  /\ propLog = <<>>
  /\ ctxLine = <<>>

NextLive ==
  \/ StopLoggers
  \/ JoinLoggers
  \/ MergeStep
  \/ Synthesize
  \/ \E t \in Tailers : TailerBegin(t)
  \/ \E t \in Tailers : TailerCheck(t)
  \/ \E t \in Tailers : TailerRead(t)
  \/ \E t \in Tailers : TailerReadNull(t)
  \/ \E t \in Tailers : TailerLock(t)
  \/ \E t \in Tailers : TailerInsert(t)
  \/ \E t \in Tailers : TailerFanOut(t)

\* a step of thread t, whichever its place allows
TailerStep(t) ==
  \/ TailerBegin(t)
  \/ TailerCheck(t)
  \/ TailerRead(t)
  \/ TailerReadNull(t)
  \/ TailerLock(t)
  \/ TailerInsert(t)
  \/ TailerFanOut(t)

Fairness ==
  /\ WF_vars(JoinLoggers)
  /\ \A t \in Tailers : WF_vars(TailerStep(t))

SpecLive == InitLive /\ [][NextLive]_vars /\ Fairness

-----------------------------------------------------------------------------
(* Claims about the record parser (checked under SpecParser)               *)

\* the residual attribute a pair of the line leaves in the record
ExpectedAttribute(e) ==
  [key |-> W(e.key),
   val |-> IF e.quoted /\ e.val = <<>> THEN <<DQ, DQ>> ELSE e.val]

\* the record a well-shaped line stands for
Recovered(in, rec) ==
  /\ rec.stale = FALSE
  /\ rec.granted = in.granted
  /\ rec.operation = {W(in.ops[i]) : i \in 1..Len(in.ops)}
  /\ rec.scontext = W(in.sname)
  /\ rec.tcontext = W(in.tname)
  /\ rec.tclass = W(in.tclass)
  /\ rec.permissive = (in.permissive = 1)
  /\ rec.misc_attributes = {ExpectedAttribute(in.extra[i]) : i \in 1..Len(in.extra)}

\* C3: every well-shaped line (marker, status, { ops }, for, key=value pairs
\* with scontext, tcontext, tclass and permissive in {0,1}) is parsed into a
\* well-formed record carrying exactly the fields of the line; the braces may
\* hold no operation at all.
C3_ValidLineRecovered ==
  (pPc = "parsed" /\ pValid) =>
    (pOut.exit = "record" /\ ~pOut.oob /\ Recovered(pIntent, pOut.rec))

\* The same for the lines with at least one operation between the braces.
ValidLineWithOpsRecovered ==
  (pPc = "parsed" /\ pValid /\ Len(pIntent.ops) >= 1) =>
    (pOut.exit = "record" /\ ~pOut.oob /\ Recovered(pIntent, pOut.rec))

\* C4: parsing is total: whatever follows the marker, the constructor ends
\* with a well-formed record or a discarded one and never goes past the end
\* of the token list.
C4_ParsingTotal ==
  pPc = "parsed" => (~pOut.oob /\ pOut.exit \in {"record", "discarded"})

-----------------------------------------------------------------------------
(* Claims about the merge engine and the synthesizer (under SpecMerge)     *)

Swept == mainPc = "done"

\* the lines rendered from the records that are not inert
SurvivorLines(c) == {RenderContext(c[i]) : i \in {k \in 1..Len(c) : ~c[k].stale}}

\* C1: merge is order-independent: the sweep and the rendering of any
\* permutation of the collection give the lines the run itself produced, both
\* as the set of lines of the surviving records and as the text written.
C1_MergeOrderIndependent ==
  Swept =>
    \A p \in Permutations(1..Len(ctx0)) :
      LET c == Sweep([i \in 1..Len(ctx0) |-> ctx0[p[i]]])
      IN  /\ SurvivorLines(c) = SurvivorLines(ctx)
          /\ RenderContexts(c) = rules

\* two mergeable records were collected in both orders of some other pair
C1_Witness ==
  /\ Swept
  /\ \E i, j \in 1..Len(ctx0) :
       /\ i < j /\ ~ctx0[i].stale /\ ~ctx0[j].stale
       /\ ctx0[i].operation # ctx0[j].operation
       /\ ctx0[i].misc_attributes # ctx0[j].misc_attributes
       /\ ctx[i].operation = ctx0[i].operation \cup ctx0[j].operation
       /\ ctx[j].stale
  /\ \E l \in Range(rules) : Len(l) > 1

MergeKey(r) == <<r.granted, r.scontext, r.tcontext, r.tclass>>

\* the well-formed records of the collection that agree with record i on
\* granted, source, target and class
ClassOf(c, i) == {j \in 1..Len(c) : ~c[j].stale /\ MergeKey(c[j]) = MergeKey(c[i])}

\* C2: after the sweep, of each class of well-formed records that agree on
\* granted, source context, target context and target class exactly one is
\* not inert and holds the union of the operations of the class; the others
\* are inert and hold what they held; nothing passes between classes.
C2_MergedIffEquivalent ==
  Swept =>
    /\ Len(ctx) = Len(ctx0)
    /\ \A i \in 1..Len(ctx0) :
         IF ctx0[i].stale THEN ctx[i] = ctx0[i]
         ELSE LET class == ClassOf(ctx0, i)
              IN  /\ Cardinality({j \in class : ~ctx[j].stale}) = 1
                  /\ \A j \in class :
                       /\ MergeKey(ctx[j]) = MergeKey(ctx0[j])
                       /\ IF ctx[j].stale
                          THEN ctx[j].operation = ctx0[j].operation
                          ELSE ctx[j].operation =
                                 UNION {ctx0[k].operation : k \in class}

\* a class of two records that differ in attributes and permissive flag was
\* merged beside a record that differs from them in granted only
C2_Witness ==
  /\ Swept
  /\ \E i, j, k \in 1..Len(ctx0) :
       /\ i # j /\ j \in ClassOf(ctx0, i) /\ ~ctx0[i].stale
       /\ ctx0[i].permissive # ctx0[j].permissive
       /\ ctx0[i].misc_attributes # ctx0[j].misc_attributes
       /\ ctx[j].stale /\ ~ctx[i].stale
       /\ ctx[i].operation = ctx0[i].operation \cup ctx0[j].operation
       /\ ctx0[i].operation # ctx0[j].operation
       /\ ~ctx0[k].stale /\ ctx0[k].granted # ctx0[i].granted
       /\ ~ctx[k].stale /\ ctx[k].operation = ctx0[k].operation

\* the operations of a set, each followed by a blank, in ascending order
OpsText(ops) ==
  LET order == CHOOSE f \in [1..Cardinality(ops) -> ops] :
                 \A a, b \in 1..Cardinality(ops) : a < b => StrLess(f[a], f[b])
  IN  Concat([i \in 1..Cardinality(ops) |-> order[i] \o <<" ">>])

\* `allow <source> <target>:<class> <operations>;`
ExpectedRule(r) ==
  <<"allow ">> \o r.scontext \o <<" ">> \o r.tcontext \o <<":">> \o r.tclass \o <<" ">>
    \o (IF \E op \in r.operation : r.operation = {op}
        THEN CHOOSE op \in r.operation : TRUE
        ELSE <<"{", " ">> \o OpsText(r.operation) \o <<"}">>)
    \o <<";">>

Renders(r) == ~r.stale /\ r.operation # {} /\ W("sys_admin") \notin r.operation

\* C6: a record that is not inert, has operations and not the excluded one
\* is written as `allow <source> <target>:<class> <operations>;`, the bare
\* operation if there is one, `{ op1 op2 ... }` in the order of the set
\* otherwise; that line is in the text the synthesizer wrote.
C6_RuleShape ==
  \A i \in 1..Len(ctx) :
    Renders(ctx[i]) =>
      /\ RenderContext(ctx[i]) = ExpectedRule(ctx[i])
      /\ Swept => (ExpectedRule(ctx[i]) \o <<"\n">>) \in Range(rules)

\* a rule with one operation and a rule with several were written
C6_Witness ==
  /\ Swept
  /\ \E i, j \in 1..Len(ctx) :
       /\ Renders(ctx[i]) /\ Cardinality(ctx[i].operation) = 1
       /\ Renders(ctx[j]) /\ Cardinality(ctx[j].operation) >= 2
       /\ (ExpectedRule(ctx[i]) \o <<"\n">>) \in Range(rules)
       /\ (ExpectedRule(ctx[j]) \o <<"\n">>) \in Range(rules)

\* C7: the text written holds every distinct rendered line once, in
\* ascending order, however many records render to the same line.
C7_RulesSortedUnique ==
  Swept =>
    /\ \A a, b \in 1..Len(rules) : a < b => StrLess(rules[a], rules[b])
    /\ Range(rules) = {RenderContext(ctx[i]) \o <<"\n">> : i \in 1..Len(ctx)}

\* two records that are not inert rendered to the same rule, and so did two
\* inert ones to the empty line
C7_Witness ==
  /\ Swept
  /\ \E i, j \in 1..Len(ctx) :
       /\ i # j /\ Renders(ctx[i]) /\ Renders(ctx[j])
       /\ RenderContext(ctx[i]) = RenderContext(ctx[j])
       /\ Cardinality({k \in 1..Len(rules) : rules[k] = RenderContext(ctx[i]) \o <<"\n">>}) = 1
  /\ Len(rules) >= 2

\* C8: a record whose operations include sys_admin gives no rule line,
\* whatever else it holds: nothing is rendered for it and no line written
\* names the operation.
C8_ExcludedOperation ==
  /\ \A i \in 1..Len(ctx) :
       W("sys_admin") \in ctx[i].operation => RenderContext(ctx[i]) = <<>>
  /\ \A k \in 1..Len(rules) : Find(rules[k], "sys_admin") = 0

\* a surviving record holds sys_admin beside another operation, and the
\* synthesizer has written a rule for some other record
C8_Witness ==
  /\ Swept
  /\ \E i \in 1..Len(ctx) :
       /\ ~ctx[i].stale
       /\ W("sys_admin") \in ctx[i].operation
       /\ Cardinality(ctx[i].operation) >= 2
  /\ \E k \in 1..Len(rules) : Len(rules[k]) > 1

-----------------------------------------------------------------------------
(* Claims about the filters and the fan-out, under Spec *)

\* C5: the shared collection holds well-formed records only: before the
\* merge no element is marked stale, and no element was constructed from a
\* line whose parsing fails.
C5_OnlyWellFormedRecords ==
  /\ mainPc \notin {"merge", "done"} => \A i \in 1..Len(ctx) : ~ctx[i].stale
  /\ \A i \in 1..Len(ctxLine) : AvcContext(SourceLines[ctxLine[i]]).exit = "record"

\* the lines given to the property filter before the i-th that are
\* property-only denials of the name
SeenBefore(i, name) ==
  \E j \in 1..(i - 1) :
    LET m == PropRegexSearch(SourceLines[propLog[j].line])
    IN  m.found /\ m.dest = <<>> /\ m.name = name

\* C9: of the lines given to the property filter, a property-only denial
\* matches exactly when its name was not seen before, and a denial with a
\* destination matches every time.
C9_PropertyDenoise ==
  \A i \in 1..Len(propLog) :
    LET m == PropRegexSearch(SourceLines[propLog[i].line])
    IN  m.found =>
          IF m.dest = <<>>
          THEN propLog[i].match <=> ~SeenBefore(i, m.name)
          ELSE propLog[i].match

LinesOf(log) == [i \in 1..Len(log) |-> log[i].line]

\* the lines tailer t read and is through with: the last one read is still
\* on its way to the sinks between fgets and the raw write
Processed(t) ==
  IF tPc[t] \in {"lock", "insert", "fanout", "crashed"}
  THEN Sub(readLog[t], 1, Len(readLog[t]) - 1)
  ELSE readLog[t]

AvcMatched(e) == "avc" \in e.ran /\ AvcFilterMatch(SourceLines[e.line])

PropMatched(e) == e.match

\* C10: the raw sink of a tailer holds the lines the tailer read, in the
\* order read; the sink of each of its filters holds, in that order, those
\* the filter matched.  (Of sinks that opened: the others hold nothing.)
C10_FanOut ==
  /\ \A t \in Tailers :
       /\ sinkState[t] = "open" => sinkData[t] = LinesOf(Processed(t))
       /\ sinkState[FilterSink(t, "avc")] = "open" =>
            sinkData[FilterSink(t, "avc")] = LinesOf(SelectSeq(Processed(t), AvcMatched))
  /\ sinkState["libc_props.logcat"] = "open" =>
       sinkData["libc_props.logcat"] = LinesOf(SelectSeq(propLog, PropMatched))
  /\ \A id \in TailerSinks : sinkState[id] # "open" => sinkData[id] = <<>>

\* logcat has read two different lines and is through with both; the
\* denial filter matched the first only, and both of its sinks are open
C10_Witness ==
  /\ tPc["logcat"] \in {"check", "eof", "done"}
  /\ sinkState["logcat"] = "open"
  /\ sinkState["avc.logcat"] = "open"
  /\ Len(readLog["logcat"]) = 2
  /\ readLog["logcat"][1].line # readLog["logcat"][2].line
  /\ AvcMatched(readLog["logcat"][1])
  /\ ~AvcMatched(readLog["logcat"][2])
  /\ Len(sinkData["logcat"]) = 2
  /\ Len(sinkData["avc.logcat"]) = 1

-----------------------------------------------------------------------------
(* Claims about main() and the threads, under Spec *)

PostProcessing == mainPc \in {"merge", "done"}

\* C11: while the merge sweep or the synthesizer runs (and after), no
\* tailer is running, and no step reads a line or appends a record to the
\* collection: its length and the lines its records came from stay as the
\* join left them.
C11_JoinBeforeMerge ==
  [][PostProcessing =>
       /\ \A t \in Tailers : tPc[t] \in {"none", "done"}
       /\ Len(ctx') = Len(ctx)
       /\ ctxLine' = ctxLine
       /\ readLog' = readLog
       /\ sinkData' = sinkData]_vars

\* the sweep is under way on a collection of two records that both tailers
\* helped to fill, and both threads have ended
C11_Witness ==
  /\ mainPc = "merge"
  /\ e2 > 1
  /\ Len(ctx) = 2
  /\ \A t \in Tailers : tPc[t] = "done" /\ Len(readLog[t]) = 1

AvcSinks == {"avc.dmesg", "avc.logcat"}

\* C12: when the configuration was read (rc = 0) and CONFIG_AUDIT is not
\* built in, the denial filter is on no tailer, its sinks are not
\* constructed, the collection stays empty and sepolicy.gen is never opened.
C12_GateUnavailable ==
  gate = "other" =>
    /\ \A t \in Tailers : "avc" \notin filters[t]
    /\ \A id \in AvcSinks : sinkState[id] = "absent"
    /\ ctx = <<>>
    /\ genSink.state = "absent"

\* such a run has ended after logcat read a line the denial regex matches
C12_Witness ==
  /\ gate = "other"
  /\ mainPc = "exit"
  /\ exitStatus = "EXIT_SUCCESS"
  /\ \E i \in 1..Len(readLog["logcat"]) :
       AvcFilterMatch(SourceLines[readLog["logcat"][i].line])

\* C13: when ReadKernelConfig returns non-zero, the denial filter is on no
\* tailer, its sinks are not constructed, nothing is collected and the run
\* ends without sepolicy.gen.
C13_GateReadFailure ==
  gate = "failed" =>
    /\ \A t \in Tailers : "avc" \notin filters[t]
    /\ \A id \in AvcSinks : sinkState[id] = "absent"
    /\ ctx = <<>>
    /\ genSink.state = "absent"

Returned == mainPc \in {"exit", "done"}

\* C14: once main has returned, a raw or filter sink whose stream took no
\* line has no byte in its file and no file: the file was removed, or was
\* never created.
C14_EmptySinkRemoved ==
  Returned =>
    \A id \in TailerSinks :
      sinkData[id] = <<>> => ~sinkDisk[id] /\ sinkFile[id] # "exists"

\* the run is over, logcat read a line, and the sink of the property filter,
\* which opened and took nothing, had its file removed
C14_Witness ==
  /\ Returned
  /\ Len(readLog["logcat"]) >= 1
  /\ sinkState["libc_props.logcat"] = "open"
  /\ sinkData["libc_props.logcat"] = <<>>
  /\ sinkFile["libc_props.logcat"] = "removed"

\* C15: main returns 0 when the directory was set up and nothing failed to
\* open, and a run that returns EXIT_FAILURE started no tailer: no line was
\* read and none was sent to a sink.
C15_ExitStatus ==
  Returned =>
    /\ (sinkState["logcat"] # "absent" /\ faults = {}) => exitStatus = "EXIT_SUCCESS"
    /\ exitStatus = "EXIT_FAILURE" =>
         /\ \A t \in Tailers : tPc[t] = "none" /\ readLog[t] = <<>>
         /\ \A id \in TailerSinks : sinkData[id] = <<>>

Untrusted(l) == FindUntrusted(SourceLines[l])

\* C16: a line that holds `untrusted_app` gives no record and is never in
\* the sink of the denial filter, while the raw sink of the tailer that read
\* it holds it once the tailer is through with it.
C16_ExcludedActor ==
  /\ \A i \in 1..Len(ctxLine) : ~Untrusted(ctxLine[i])
  /\ \A id \in AvcSinks : \A k \in 1..Len(sinkData[id]) : ~Untrusted(sinkData[id][k])
  /\ \A t \in Tailers :
       sinkState[t] = "open" =>
         \A i \in 1..Len(Processed(t)) :
           Untrusted(Processed(t)[i].line) => sinkData[t][i] = Processed(t)[i].line

\* logcat, with the denial filter installed and its sinks open, is through
\* with a line that holds a whole denial marker and `untrusted_app`
C16_Witness ==
  /\ sinkState["logcat"] = "open"
  /\ sinkState["avc.logcat"] = "open"
  /\ \E i \in 1..Len(Processed("logcat")) :
       LET e == Processed("logcat")[i]
       IN  /\ "avc" \in e.ran
           /\ Untrusted(e.line)
           /\ AvcRegexSearch(SourceLines[e.line])

-----------------------------------------------------------------------------
(* Further claims about the merge and the rule text, under SpecMerge *)

\* C17: a record is never merged with itself: a well-formed record that no
\* other record of the collection is equivalent to is, all through the sweep
\* and after it, as it was collected: not inert, its operations unchanged.
C17_ReflexiveSafe ==
  mainPc \in {"merge", "done"} =>
    \A i \in 1..Len(ctx0) :
      (~ctx0[i].stale /\ ClassOf(ctx0, i) = {i}) => ctx[i] = ctx0[i]

\* the sweep is over; one record had no equivalent, and two others merged
C17_Witness ==
  /\ Swept
  /\ \E i \in 1..Len(ctx0) : ~ctx0[i].stale /\ ClassOf(ctx0, i) = {i}
  /\ \E j \in 1..Len(ctx0) : ~ctx0[j].stale /\ ctx[j].stale

\* C18: every line of the text written for sepolicy.gen is the rule of a
\* surviving record: records that are inert, without operations or hold the
\* excluded operation add no line to it, not even an empty one.
C18_OnlyRuleLines ==
  Swept =>
    \A k \in 1..Len(rules) :
      \E i \in 1..Len(ctx) : Renders(ctx[i]) /\ rules[k] = ExpectedRule(ctx[i]) \o <<"\n">>

-----------------------------------------------------------------------------
(* Claims about the end of a tailer, under Spec and SpecLive *)

\* C19: a tailer whose source reported end-of-input ends: from the place
\* where fgets gave nullptr it goes nowhere but to its end, whatever the
\* stop flag says.
C19_EofTerminates ==
  [][\A t \in Tailers : tPc[t] = "eof" => tPc'[t] \in {"eof", "done"}]_vars

\* C20: once the flag is low no tailer enters a read it was not already in
\* (so each starts at most one further read); and when reads return and
\* threads are scheduled, from the moment main waits in join the tailers end
\* and main goes on to the merge, or to its return when there is none.
C20_CooperativeStop ==
  /\ [][\A t \in Tailers : (~run /\ tPc[t] # "read") => tPc'[t] # "read"]_vars
  /\ (mainPc = "join") ~> (Joined /\ mainPc \in {"merge", "exit"})

\* main waits in join with the flag low; dmesg has ended, and logcat, which
\* has read a line before, is in the one read it had entered
C20_Witness ==
  /\ ~run
  /\ mainPc = "join"
  /\ tPc["dmesg"] = "done"
  /\ tPc["logcat"] = "read"
  /\ Len(readLog["logcat"]) >= 1

-----------------------------------------------------------------------------
(* Claims about the mutex and the files of the sinks, under Spec *)

\* the lines of tailer t that went through the insertion: those the denial
\* filter matched, but for the one still on its way to the mutex or under it
InsertedBy(t) ==
  LET log == IF tPc[t] \in {"lock", "insert"}
             THEN Sub(readLog[t], 1, Len(readLog[t]) - 1)
             ELSE readLog[t]
  IN  Len(SelectSeq(log, AvcMatched))

\* C21: no two tailers are in the insertion (construction and append) at
\* once, the one that is in it holds the mutex, and until the sweep the
\* collection has one element for each insertion either tailer made.
C21_ExclusiveInsertion ==
  /\ \A t1, t2 \in Tailers : (tPc[t1] = "insert" /\ tPc[t2] = "insert") => t1 = t2
  /\ \A t \in Tailers : tPc[t] = "insert" => lock = t
  /\ Len(ctx) = InsertedBy("dmesg") + InsertedBy("logcat")
  /\ Len(ctx) = Len(ctxLine)

\* dmesg is in the insertion, holding the mutex logcat waits for with a
\* line of its own
C21_Witness ==
  /\ tPc["dmesg"] = "insert"
  /\ tPc["logcat"] = "lock"
  /\ lock = "dmesg"
  /\ AvcVerdict[cur["logcat"]]

-----------------------------------------------------------------------------
(* A further claim about the record parser, under SpecParser *)

\* C22: a well-shaped line with nothing between its braces is parsed into
\* a well-formed record with no operation: the constructor neither fails nor
\* takes `}` or a later token of the line for an operation.
C22_ZeroOperations ==
  (pPc = "parsed" /\ pValid /\ pIntent.ops = <<>>) =>
    /\ pOut.exit = "record"
    /\ ~pOut.oob
    /\ ~pOut.rec.stale
    /\ pOut.rec.operation = {}

\* C23: once main has returned, the file of a raw or filter sink whose
\* stream took at least one line exists and holds what was written, also
\* when less than BUF_SIZE was written and no flush came before the
\* destructor looked at the size.
C23_WrittenSinkKept ==
  Returned =>
    \A id \in TailerSinks :
      sinkData[id] # <<>> => sinkFile[id] = "exists" /\ sinkDisk[id]

-----------------------------------------------------------------------------
(* Further claims about the merge, under SpecMerge *)

\* the well-formed records collected whose class holds the excluded
\* operation in some record
Tainted(i) ==
  /\ ~ctx0[i].stale
  /\ \E j \in ClassOf(ctx0, i) : W("sys_admin") \in ctx0[j].operation

\* C24: when some record of a class (same granted, source, target, class)
\* holds sys_admin, no record of the class is rendered after the sweep, and
\* every rule written is the rule of a record of another class: the other
\* operations of the class reach the text through none of its records.
C24_ExcludedClass ==
  Swept =>
    /\ \A i \in 1..Len(ctx0) : Tainted(i) => RenderContext(ctx[i]) = <<>>
    /\ \A k \in 1..Len(rules) :
         Len(rules[k]) > 1 =>
           \E j \in 1..Len(ctx) :
             ~Tainted(j) /\ rules[k] = RenderContext(ctx[j]) \o <<"\n">>

\* the sweep is over; a record without sys_admin came before a record of
\* its class that holds it, and a rule was written for another class
C24_Witness ==
  /\ Swept
  /\ \E i, j \in 1..Len(ctx0) :
       /\ i < j
       /\ ~ctx0[i].stale
       /\ j \in ClassOf(ctx0, i)
       /\ ctx0[i].operation # {}
       /\ W("sys_admin") \notin ctx0[i].operation
       /\ W("sys_admin") \in ctx0[j].operation
  /\ \E k \in 1..Len(rules) : Len(rules[k]) > 1

\* the least position of a non-empty set of positions
First(S) == CHOOSE i \in S : \A j \in S : i <= j

\* C25: during the sweep an inert record stays as it is (inert, with the
\* operation set it had), a comparison in which either record is inert
\* changes nothing in the collection, and when the sweep is over the record
\* of each class that is not inert is the first of the class in collection
\* order.
C25_InertFrozen ==
  /\ [][mainPc = "merge" =>
          /\ Len(ctx') = Len(ctx)
          /\ \A i \in 1..Len(ctx) : ctx[i].stale => ctx'[i] = ctx[i]
          /\ (/\ e1 <= Len(ctx) /\ e2 <= Len(ctx)
              /\ (ctx[e1].stale \/ ctx[e2].stale)) => ctx' = ctx]_vars
  /\ [](Swept =>
          \A i \in 1..Len(ctx0) :
            ~ctx0[i].stale =>
              (~ctx[i].stale <=> i = First(ClassOf(ctx0, i))))

\* the sweep is about to compare a record it has marked inert with the
\* record of its class that took its operations
C25_Witness ==
  /\ mainPc = "merge"
  /\ e1 <= Len(ctx) /\ e2 <= Len(ctx) /\ e1 # e2
  /\ ctx[e1].stale /\ ~ctx0[e1].stale
  /\ ~ctx[e2].stale
  /\ MergeKey(ctx0[e1]) = MergeKey(ctx[e2])
  /\ ctx0[e1].operation \subseteq ctx[e2].operation
  /\ ctx0[e2].operation # ctx[e2].operation

\* every atom of a record is one whose byte order AtomOrder gives
AtomsRanked ==
  \A i \in 1..Len(ctx) :
    \A str \in {ctx[i].scontext, ctx[i].tcontext, ctx[i].tclass} \cup ctx[i].operation :
      \A k \in 1..Len(str) : AtomRank(str[k]) # 0

=============================================================================
